---- MODULE Spec2Model ----
(***************************************************************************)
(* Model of the locale-parser key-generation, rewrite and catalog-merge    *)
(* engine (src/main.go, the main package at lines 574-1004; the key        *)
(* generator of the main package at lines 1-387 is modelled beside it).     *)
(*                                                                         *)
(* Strings and byte buffers are sequences of byte values (97 is 'a'), so   *)
(* that lower-casing, the slug regular expression, byte slicing and the    *)
(* lexicographic sort of the catalog keys are computed as the code does.   *)
(***************************************************************************)
EXTENDS Integers, Sequences, FiniteSets, TLC

VARIABLES
    \* ---- key generator (generateKey, and main's key counter)
    maxSlug,      \* the -max-slug flag of the run
    keyCounter,   \* map[string]int: candidate key -> occurrences so far
    calls,        \* the generateKey calls made so far: <<filePath, text>>
    keys,         \* the keys those calls returned, in call order
    spanSeq,      \* the <<filePath, text>> sequence a traversal of the tree yields
    run,          \* which run of the program this is (1 or 2), 0 when unused
    firstKeys,    \* the keys the first run returned
    firstCounter, \* the key counter the first run ended with
    program,      \* which main package of main.go runs: "first" (line 1) or "last" (line 574)
    roots,        \* the -path flag of run 1 and of run 2, <<>> when unused
    \* ---- slugify
    slugIn,       \* <<text, maxLen>>
    slugOut,      \* <<>> before the call, <<result>> after it
    \* ---- rewriter (replaceInFile, called from main's per-file loop)
    fileContent,  \* the bytes of the source file as read
    fileMatches,  \* the file's matches, in the order parse found them
    newContent,   \* <<>> before the rewrite, <<result>> after it
    \* ---- catalog merger (writeLocaleFile)
    catFile,      \* the locale file on disk: [exists, valid, pairs]
    newEntries,   \* the translations handed to writeLocaleFile: key -> text
    mergeCall,    \* "first", "second" (the call to come) or "done"
    mergeRet,     \* what the last call returned: "none", "nil", "parse", "write"
    readErr,      \* what os.ReadFile returned in the last call
    catBefore,    \* the locale file before the last call
    afterFirst,   \* <<>>, or <<the file after the first call, what it returned>>
    \* ---- one run of main
    replaceFlag,  \* the -replace flag
    writeFlag,    \* the -write flag
    fileTexts,    \* source file -> the text nodes of its template, as first on disk
    disk,         \* source file -> its bytes on disk
    walkLeft,     \* the .vue files walk has still to parse, in directory order
    results,      \* the matches collected so far
    pc,           \* "idle", "walk", "rewrite" or "exit"
    pending,      \* the files main's per-file loop has still to process
    exitCode,     \* -1 while running, then the exit code of the process
    srcWritten,   \* the source files os.WriteFile has written to
    ioFailed,     \* whether reading or writing some file has failed
    catAtStart    \* the locale file as it was when the run started

keyVars  == <<maxSlug, keyCounter, calls, keys, spanSeq, run, firstKeys, firstCounter,
              program, roots>>
slugVars == <<slugIn, slugOut>>
rewriteVars == <<fileContent, fileMatches, newContent>>
mergeVars == <<catFile, newEntries, mergeCall, mergeRet, readErr, catBefore, afterFirst>>
mainVars == <<replaceFlag, writeFlag, fileTexts, disk, walkLeft, results, pc,
              pending, exitCode, srcWritten, ioFailed, catAtStart>>
vars     == <<keyVars, slugVars, rewriteVars, mergeVars, mainVars>>

(***************************************************************************)
(* Bounds of the model.                                                    *)
(***************************************************************************)
MaxCalls   == 3   \* generateKey calls in one run
MaxTextLen == 4   \* length of a text handed to slugify
MaxSlugLen == 3   \* largest maxLen handed to slugify
MaxContentLen == 15   \* bytes of a source file handed to the rewriter
MaxSpans   == 2   \* matches of one source file
MaxPairs   == 2   \* key/text pairs of the locale file found on disk
MaxFileTexts == 3 \* text nodes of the file p.vue in a run of main
MaxOtherTexts == 1 \* text nodes of the file D/q.vue in a run of main

(***************************************************************************)
(* Bytes.                                                                  *)
(***************************************************************************)
Hyphen == 45      \* '-'
Dot    == 46      \* '.'
Sep    == 47      \* filepath.Separator, '/'

VueExt == <<46, 118, 117, 101>>     \* ".vue"

\* strings.ToLower on one ASCII byte.
ToLowerByte(c) == IF c \in 65..90 THEN c + 32 ELSE c

\* strings.ToLower.
ToLower(s) == [i \in 1..Len(s) |-> ToLowerByte(s[i])]

\* The class [a-z0-9] of the slug regular expression.
IsAlnum(c) == c \in 97..122 \/ c \in 48..57

\* regexp `[^a-z0-9]+` .ReplaceAllString(text, "-"): every maximal run of
\* bytes outside [a-z0-9] becomes one '-'.
RECURSIVE SkipNonAlnum(_)
SkipNonAlnum(s) ==
    IF s = <<>> \/ IsAlnum(Head(s)) THEN s ELSE SkipNonAlnum(Tail(s))

RECURSIVE ReplaceRuns(_)
ReplaceRuns(s) ==
    IF s = <<>> THEN <<>>
    ELSE IF IsAlnum(Head(s)) THEN <<Head(s)>> \o ReplaceRuns(Tail(s))
    ELSE <<Hyphen>> \o ReplaceRuns(SkipNonAlnum(Tail(s)))

\* strings.Trim(s, "-").
RECURSIVE TrimLeft(_, _)
TrimLeft(s, c) ==
    IF s # <<>> /\ Head(s) = c THEN TrimLeft(Tail(s), c) ELSE s

RECURSIVE TrimRight(_, _)
TrimRight(s, c) ==
    IF s # <<>> /\ s[Len(s)] = c THEN TrimRight(SubSeq(s, 1, Len(s) - 1), c) ELSE s

Trim(s, c) == TrimRight(TrimLeft(s, c), c)

\* strings.LastIndex(s, "-"): 0-based index of the last c, -1 when none.
LastIndex(s, c) ==
    LET at == {i \in 1..Len(s) : s[i] = c}
    IN  IF at = {} THEN -1 ELSE (CHOOSE i \in at : \A j \in at : j <= i) - 1

\* slugify as it would be without the strings.Trim of main.go:643.
slugifyNoTrim(text, maxLen) ==
    LET replaced == ReplaceRuns(ToLower(text))
    IN  IF Len(replaced) > maxLen
        THEN LET cut == SubSeq(replaced, 1, maxLen)
                 lastHyphen == LastIndex(cut, Hyphen)
             IN  IF lastHyphen > 0 THEN SubSeq(cut, 1, lastHyphen) ELSE cut
        ELSE replaced

\* slugify, main.go:634-656.
slugify(text, maxLen) ==
    LET lowered  == ToLower(text)
        replaced == ReplaceRuns(lowered)
        trimmed  == Trim(replaced, Hyphen)
    IN  IF Len(trimmed) > maxLen
        THEN LET cut == SubSeq(trimmed, 1, maxLen)
                 lastHyphen == LastIndex(cut, Hyphen)
             IN  IF lastHyphen > 0 THEN SubSeq(cut, 1, lastHyphen) ELSE cut
        ELSE trimmed

\* strconv / fmt "%d" of a positive integer.
RECURSIVE Itoa(_)
Itoa(n) == IF n < 10 THEN <<48 + n>> ELSE Itoa(n \div 10) \o <<48 + (n % 10)>>

\* strings.TrimSuffix.
HasSuffix(s, suf) ==
    Len(s) >= Len(suf) /\ SubSeq(s, Len(s) - Len(suf) + 1, Len(s)) = suf

TrimSuffix(s, suf) ==
    IF HasSuffix(s, suf) THEN SubSeq(s, 1, Len(s) - Len(suf)) ELSE s

\* strings.ReplaceAll(s, old, new) for one-byte old and new.
ReplaceAll(s, old, new) == [i \in 1..Len(s) |-> IF s[i] = old THEN new ELSE s[i]]

\* The elements of a clean path, between separators.
RECURSIVE Split(_, _)
Split(s, c) ==
    LET at == {i \in 1..Len(s) : s[i] = c}
    IN  IF at = {} THEN <<s>>
        ELSE LET i == CHOOSE k \in at : \A j \in at : k <= j
             IN  <<SubSeq(s, 1, i - 1)>> \o Split(SubSeq(s, i + 1, Len(s)), c)

RECURSIVE Join(_, _)
Join(elems, c) ==
    IF elems = <<>> THEN <<>>
    ELSE IF Len(elems) = 1 THEN elems[1]
    ELSE elems[1] \o <<c>> \o Join(Tail(elems), c)

IsAbs(p) == p # <<>> /\ p[1] = Sep

Elems(p) == SelectSeq(Split(p, Sep), LAMBDA e : e # <<>>)

\* filepath.Rel(basePath, filePath) on clean paths: [ok, path].  It fails
\* when one path is rooted and the other is not, or when it would have to
\* climb out of a ".." element of the base.
Rel(basePath, filePath) ==
    LET b == IF basePath = <<Dot>> THEN <<>> ELSE Elems(basePath)
        t == Elems(filePath)
        same == {n \in 0..Len(b) :
                    n <= Len(t) /\ \A i \in 1..n : b[i] = t[i]}
        n == CHOOSE k \in same : \A j \in same : j <= k
        up == [i \in 1..(Len(b) - n) |-> <<Dot, Dot>>]
    IN  IF filePath = basePath THEN [ok |-> TRUE, path |-> <<Dot>>]
        ELSE IF IsAbs(basePath) # IsAbs(filePath) THEN [ok |-> FALSE, path |-> <<>>]
        ELSE IF n < Len(b) /\ b[n + 1] = <<Dot, Dot>> THEN [ok |-> FALSE, path |-> <<>>]
        ELSE [ok |-> TRUE, path |-> Join(up \o SubSeq(t, n + 1, Len(t)), Sep)]

\* keyCounter[key] of a Go map: 0 for a key that is not in it.
Count(counter, key) == IF key \in DOMAIN counter THEN counter[key] ELSE 0

Put(counter, key, n) ==
    [k \in DOMAIN counter \cup {key} |-> IF k = key THEN n ELSE counter[k]]

\* The path stem of generateKey, main.go:663-675.
pathStem(filePath, basePath) ==
    LET rel == Rel(basePath, filePath)
        relPath == IF rel.ok THEN rel.path ELSE filePath
    IN  ReplaceAll(ToLower(TrimSuffix(relPath, VueExt)), Sep, Dot)

\* key := relPath + "." + slug, main.go:678-681.
candidateKey(filePath, basePath, text, maxLen) ==
    pathStem(filePath, basePath) \o <<Dot>> \o slugify(text, maxLen)

\* The duplicate handling as it would be if the count were read before
\* the increment of main.go:684.
suffixedOffByOne(key, count) ==
    IF count > 1 THEN key \o <<Hyphen>> \o Itoa(count - 1) ELSE key

\* The duplicate handling of generateKey, main.go:686-690: the key to
\* return for a candidate whose incremented count is `count`.
suffixed(key, count) ==
    IF count > 1 THEN key \o <<Hyphen>> \o Itoa(count) ELSE key

\* generateKey, main.go:661-691: the key returned and the counter after it.
generateKey(filePath, basePath, text, maxLen, counter) ==
    LET key == candidateKey(filePath, basePath, text, maxLen)
        count == Count(counter, key) + 1
    IN  [key |-> suffixed(key, count), keyCounter |-> Put(counter, key, count)]

\* The sequences over S of length at most n.
RECURSIVE SeqsUpTo(_, _)
SeqsUpTo(S, n) ==
    IF n = 0 THEN {<<>>}
    ELSE LET shorter == SeqsUpTo(S, n - 1)
         IN  shorter \cup {Append(s, c) : s \in shorter, c \in S}

(***************************************************************************)
(* The inputs of the key generator.                                        *)
(***************************************************************************)
BasePath == <<47, 114>>                                    \* "/r"
FilePaths ==
    { <<47, 114, 47, 112, 46, 118, 117, 101>>,             \* "/r/p.vue"
      <<47, 114, 47, 68, 47, 113, 46, 118, 117, 101>> }    \* "/r/D/q.vue"
KeyTexts ==
    { <<97>>,               \* "a"
      <<65>>,               \* "A"
      <<97, 32, 50>>,       \* "a 2"
      <<33>> }              \* "!"
MaxSlugDefault == 30
MaxSlugs == {1, MaxSlugDefault}

\* keyCounter := make(map[string]int), main.go:918.
NewKeyCounter == << >>

\* The parts of the state a specification does not use stay as they are
\* here.
\* No locale file on disk.
NoFile == [exists |-> FALSE, valid |-> FALSE, pairs |-> <<>>]

KeyIdle ==
    /\ maxSlug = MaxSlugDefault
    /\ keyCounter = NewKeyCounter
    /\ calls = <<>>
    /\ keys = <<>>
    /\ spanSeq = <<>>
    /\ run = 0
    /\ firstKeys = <<>>
    /\ firstCounter = << >>
    /\ program = "last"
    /\ roots = <<>>

SlugIdle ==
    /\ slugIn = <<<<>>, MaxSlugDefault>>
    /\ slugOut = <<>>

RewriteIdle ==
    /\ fileContent = <<>>
    /\ fileMatches = <<>>
    /\ newContent = <<>>

MergeIdle ==
    /\ catFile = NoFile
    /\ newEntries = << >>
    /\ mergeCall = "done"
    /\ mergeRet = "none"
    /\ readErr = "none"
    /\ catBefore = NoFile
    /\ afterFirst = <<>>

MainIdle ==
    /\ replaceFlag = FALSE
    /\ writeFlag = FALSE
    /\ fileTexts = << >>
    /\ disk = << >>
    /\ walkLeft = <<>>
    /\ results = <<>>
    /\ pc = "idle"
    /\ pending = {}
    /\ exitCode = -1
    /\ srcWritten = {}
    /\ ioFailed = FALSE
    /\ catAtStart = NoFile

KeyInit ==
    /\ maxSlug \in MaxSlugs
    /\ keyCounter = NewKeyCounter
    /\ calls = <<>>
    /\ keys = <<>>
    /\ spanSeq = <<>>
    /\ run = 0
    /\ firstKeys = <<>>
    /\ firstCounter = << >>
    /\ program = "last"
    /\ roots = <<>>

\* One call of generateKey from parse, main.go:830-832, for a text node of
\* some file under the base path.
GenerateKeyCall ==
    /\ Len(calls) < MaxCalls
    /\ \E filePath \in FilePaths, text \in KeyTexts :
         LET r == generateKey(filePath, BasePath, text, maxSlug, keyCounter)
         IN  /\ keyCounter' = r.keyCounter
             /\ keys' = Append(keys, r.key)
             /\ calls' = Append(calls, <<filePath, text>>)
    /\ UNCHANGED <<maxSlug, spanSeq, run, firstKeys, firstCounter, program, roots, slugVars, rewriteVars, mergeVars, mainVars>>

KeySpecInit == MainIdle /\ MergeIdle /\ KeyInit /\ SlugIdle /\ RewriteIdle

KeySpec == KeySpecInit /\ [][GenerateKeyCall]_vars

(***************************************************************************)
(* Two runs of the program over the same tree: every run of main creates   *)
(* its own key counter and walks the same spans in the same order.         *)
(***************************************************************************)
SpanInputs == FilePaths \X KeyTexts

RunsInit ==
    /\ maxSlug \in MaxSlugs
    /\ keyCounter = NewKeyCounter
    /\ calls = <<>>
    /\ keys = <<>>
    /\ spanSeq \in SeqsUpTo(SpanInputs, MaxCalls)
    /\ run = 1
    /\ firstKeys = <<>>
    /\ firstCounter = << >>
    /\ program = "last"
    /\ roots = <<>>

\* The next generateKey call of the walk, main.go:847-867 and 830-832.
WalkGenerateKey ==
    /\ Len(calls) < Len(spanSeq)
    /\ LET span == spanSeq[Len(calls) + 1]
           r == generateKey(span[1], BasePath, span[2], maxSlug, keyCounter)
       IN  /\ keyCounter' = r.keyCounter
           /\ keys' = Append(keys, r.key)
           /\ calls' = Append(calls, span)
    /\ UNCHANGED <<maxSlug, spanSeq, run, firstKeys, firstCounter, program, roots, slugVars, rewriteVars, mergeVars, mainVars>>

\* The second run as it would start if the key counter were process-wide
\* state that outlives a run instead of the map made at main.go:918.
StartRunStaleCounter ==
    /\ run = 1
    /\ Len(calls) = Len(spanSeq)
    /\ firstKeys' = keys
    /\ firstCounter' = keyCounter
    /\ run' = 2
    /\ calls' = <<>>
    /\ keys' = <<>>
    /\ UNCHANGED <<keyCounter, maxSlug, spanSeq, program, roots, slugVars, rewriteVars, mergeVars, mainVars>>

\* The second run starts, main.go:917-918: what the first run produced is
\* kept for comparison; main makes a new result list and a new key counter.
StartRun ==
    /\ run = 1
    /\ Len(calls) = Len(spanSeq)
    /\ firstKeys' = keys
    /\ firstCounter' = keyCounter
    /\ run' = 2
    /\ calls' = <<>>
    /\ keys' = <<>>
    /\ keyCounter' = NewKeyCounter
    /\ UNCHANGED <<maxSlug, spanSeq, program, roots, slugVars, rewriteVars, mergeVars, mainVars>>

RunsNext == WalkGenerateKey \/ StartRun

RunsSpecInit == MainIdle /\ MergeIdle /\ RunsInit /\ SlugIdle /\ RewriteIdle

RunsSpec == RunsSpecInit /\ [][RunsNext]_vars

(***************************************************************************)
(* slugify as a pure function of its inputs.                               *)
(***************************************************************************)
SlugBytes == {97, 66, 32, Hyphen}        \* 'a', 'B', ' ', '-'

SlugInit ==
    /\ slugIn \in SeqsUpTo(SlugBytes, MaxTextLen) \X (1..MaxSlugLen)
    /\ slugOut = <<>>

SlugifyCall ==
    /\ slugOut = <<>>
    /\ slugOut' = <<slugify(slugIn[1], slugIn[2])>>
    /\ UNCHANGED <<slugIn, keyVars, rewriteVars, mergeVars, mainVars>>

SlugSpecInit == MainIdle /\ MergeIdle /\ SlugInit /\ KeyIdle /\ RewriteIdle

SlugSpec == SlugSpecInit /\ [][SlugifyCall]_vars

(***************************************************************************)
(* The catalog merger.                                                     *)
(***************************************************************************)
\* Byte-wise string order, as sort.Strings and encoding/json order keys.
RECURSIVE StrLess(_, _)
StrLess(a, b) ==
    IF b = <<>> THEN FALSE
    ELSE IF a = <<>> THEN TRUE
    ELSE IF Head(a) # Head(b) THEN Head(a) < Head(b)
    ELSE StrLess(Tail(a), Tail(b))

\* sort.Strings(keys), main.go:727-731, on the key set of the map.
RECURSIVE SortStrings(_)
SortStrings(S) ==
    IF S = {} THEN <<>>
    ELSE LET least == CHOOSE x \in S : \A y \in S \ {x} : StrLess(x, y)
         IN  <<least>> \o SortStrings(S \ {least})

\* json.Unmarshal(data, &existing), main.go:714, of a well-formed object:
\* the pairs in file order, a later pair replacing an earlier one with the
\* same key.
RECURSIVE Unmarshal(_)
Unmarshal(pairs) ==
    IF pairs = <<>> THEN << >>
    ELSE LET last == pairs[Len(pairs)]
             rest == Unmarshal(SubSeq(pairs, 1, Len(pairs) - 1))
         IN  [k \in DOMAIN rest \cup {last[1]} |->
                 IF k = last[1] THEN last[2] ELSE rest[k]]

\* The merge loop, main.go:720-724: a new entry is inserted only when its
\* key is not in the existing map.
merge(existing, translations) ==
    [k \in DOMAIN existing \cup DOMAIN translations |->
        IF k \in DOMAIN existing THEN existing[k] ELSE translations[k]]

\* json.MarshalIndent(ordered, "", "  "), main.go:734-740: the pairs of
\* the map in sorted key order.
MarshalIndent(m) ==
    LET sortedKeys == SortStrings(DOMAIN m)
    IN  [i \in 1..Len(sortedKeys) |-> <<sortedKeys[i], m[sortedKeys[i]]>>]

Malformed == [exists |-> TRUE, valid |-> FALSE, pairs |-> <<>>]
ObjectFile(pairs) == [exists |-> TRUE, valid |-> TRUE, pairs |-> pairs]

\* What os.ReadFile can return for the file: "notExist" for a missing
\* file; for a file that is there, nil or another error (no permission,
\* an I/O error).
ReadErrs(file) == IF file.exists THEN {"nil", "other"} ELSE {"notExist"}

\* What os.WriteFile can do: write the data; fail to open the file, which
\* leaves it as it was; fail after truncating it.
WriteOutcomes == {"ok", "openFails", "writeFails"}

\* writeLocaleFile, main.go:708-750, for what os.ReadFile returns and what
\* os.WriteFile does: the file afterwards, the error returned, and whether
\* os.WriteFile was called.
writeLocaleFile(file, translations, err, writeOutcome) ==
    IF err = "nil" /\ ~file.valid
    THEN [file |-> file, ret |-> "parse", wrote |-> FALSE]
    ELSE LET existing == IF err = "nil" THEN Unmarshal(file.pairs) ELSE << >>
             output == MarshalIndent(merge(existing, translations))
         IN  CASE writeOutcome = "ok" ->
                    [file |-> ObjectFile(output), ret |-> "nil", wrote |-> TRUE]
               [] writeOutcome = "openFails" ->
                    [file |-> file, ret |-> "write", wrote |-> TRUE]
               [] writeOutcome = "writeFails" ->
                    [file |-> Malformed, ret |-> "write", wrote |-> TRUE]

CatalogKeys ==
    { <<97, 46, 98>>,              \* "a.b"
      <<97, 46, 98, 45, 50>>,      \* "a.b-2"
      <<99, 46, 100>> }            \* "c.d"
OldText == <<79, 108, 100>>        \* "Old"
NewText == <<78, 101, 119>>        \* "New"

\* The locale files that can be on disk before the run: none, one that is
\* not a JSON object of strings, or an object, its keys in any order.
CatalogFiles ==
    {NoFile, Malformed}
        \cup {ObjectFile(pairs) :
                 pairs \in SeqsUpTo(CatalogKeys \X {OldText, NewText}, MaxPairs)}

\* The translations main builds, main.go:966-969: new texts under keys.
Translations ==
    UNION {[D -> {NewText}] : D \in SUBSET CatalogKeys}

MergeInit ==
    /\ catFile \in CatalogFiles
    /\ newEntries \in Translations
    /\ mergeCall = "first"
    /\ mergeRet = "none"
    /\ readErr = "none"
    /\ catBefore = NoFile
    /\ afterFirst = <<>>

\* One call of writeLocaleFile(path, translations), main.go:998.
WriteLocaleFileCall ==
    /\ mergeCall \in {"first", "second"}
    /\ \E err \in ReadErrs(catFile), writeOutcome \in WriteOutcomes :
         LET r == writeLocaleFile(catFile, newEntries, err, writeOutcome)
         IN  /\ catFile' = r.file
             /\ mergeRet' = r.ret
             /\ readErr' = err
             /\ afterFirst' = IF mergeCall = "first" THEN <<r.file, r.ret>>
                                                    ELSE afterFirst
    /\ catBefore' = catFile
    /\ mergeCall' = IF mergeCall = "first" THEN "second" ELSE "done"
    /\ UNCHANGED <<newEntries, keyVars, slugVars, rewriteVars, mainVars>>

MergeSpecInit == MainIdle /\ MergeInit /\ KeyIdle /\ SlugIdle /\ RewriteIdle

MergeSpec == MergeSpecInit /\ [][WriteLocaleFileCall]_vars

(***************************************************************************)
(* The rewriter.                                                           *)
(***************************************************************************)
\* fmt.Sprintf("{{ $t('%s') }}", m.Key), main.go:697.
formatReplacement(key) ==
    <<123, 123, 32, 36, 116, 40, 39>> \o key \o <<39, 41, 32, 125, 125>>

\* The iteration as it would be with content[m.EndByte+1:] at main.go:701.
spliceSkipsByte(content, m) ==
    SubSeq(content, 1, m.StartByte)
        \o formatReplacement(m.Key)
        \o SubSeq(content, m.EndByte + 2, Len(content))

\* One iteration of replaceInFile's loop, main.go:697-702.
splice(content, m) ==
    SubSeq(content, 1, m.StartByte)
        \o formatReplacement(m.Key)
        \o SubSeq(content, m.EndByte + 1, Len(content))

\* replaceInFile, main.go:695-705.
RECURSIVE replaceInFile(_, _)
replaceInFile(content, matches) ==
    IF matches = <<>> THEN content
    ELSE replaceInFile(splice(content, Head(matches)), Tail(matches))

\* sort.Slice(matches, StartByte descending), main.go:974-976.  The start
\* offsets of non-overlapping matches are distinct, so the order is unique.
RECURSIVE sortByStartDesc(_)
sortByStartDesc(matches) ==
    IF matches = <<>> THEN <<>>
    ELSE LET i == CHOOSE k \in 1..Len(matches) :
                      \A j \in 1..Len(matches) :
                          matches[j].StartByte <= matches[k].StartByte
         IN  <<matches[i]>>
                 \o sortByStartDesc(SubSeq(matches, 1, i - 1)
                                        \o SubSeq(matches, i + 1, Len(matches)))

\* The bytes of a source file: all different, so that a byte that moved
\* or went missing shows.
FileBytes(n) == [i \in 1..n |-> 64 + i]

\* The key of the k-th match of a file whose texts are all alike:
\* "k", "k-2", "k-3", ...
MatchKey(k) == suffixed(<<107>>, k)

\* The match lists parse can return for a file of n bytes: at most
\* `most` text nodes, none overlapping another, each with
\* StartByte < EndByte <= n, here from offset `from` on and numbered from k.
RECURSIVE MatchLists(_, _, _, _)
MatchLists(from, n, k, most) ==
    IF most = 0 THEN {<<>>}
    ELSE LET ranges == {r \in (from..(n - 1)) \X ((from + 1)..n) : r[1] < r[2]}
         IN  {<<>>} \cup
             UNION { { <<[StartByte |-> r[1], EndByte |-> r[2], Key |-> MatchKey(k)]>>
                           \o rest :
                         rest \in MatchLists(r[2], n, k + 1, most - 1) } :
                     r \in ranges }

RewriteInit ==
    /\ \E n \in 1..MaxContentLen :
         /\ fileContent = FileBytes(n)
         /\ fileMatches \in MatchLists(0, n, 1, MaxSpans)
    /\ newContent = <<>>

\* The body of main's per-file loop, main.go:972-986: sort the matches by
\* StartByte descending, then replaceInFile on the content read.
RewriteFile ==
    /\ newContent = <<>>
    /\ newContent' = <<replaceInFile(fileContent, sortByStartDesc(fileMatches))>>
    /\ UNCHANGED <<fileContent, fileMatches, keyVars, slugVars, mergeVars, mainVars>>

RewriteSpecInit == MainIdle /\ RewriteInit /\ KeyIdle /\ SlugIdle /\ MergeIdle

RewriteSpec == RewriteSpecInit /\ [][RewriteFile]_vars

(***************************************************************************)
(* One run of main over a tree of two source files.                        *)
(***************************************************************************)
\* unicode.IsSpace on an ASCII byte.
IsSpace(c) == c \in {9, 10, 11, 12, 13, 32}

\* isWhitespaceOnly, main.go:624-631.
isWhitespaceOnly(text) == \A i \in 1..Len(text) : IsSpace(text[i])

\* The bytes of a file whose template holds the text nodes `texts`.
RECURSIVE Concat(_)
Concat(texts) == IF texts = <<>> THEN <<>> ELSE Head(texts) \o Concat(Tail(texts))

\* The capture loop of parse, main.go:810-843, over the text nodes of the
\* file from byte offset `at` on: the matches and the key counter after.
RECURSIVE parseNodes(_, _, _, _)
parseNodes(path, texts, at, counter) ==
    IF texts = <<>> THEN [matches |-> <<>>, keyCounter |-> counter]
    ELSE LET text == Head(texts)
             endByte == at + Len(text)
         IN  IF isWhitespaceOnly(text)
             THEN parseNodes(path, Tail(texts), endByte, counter)
             ELSE LET k == generateKey(path, BasePath, text, MaxSlugDefault, counter)
                      rest == parseNodes(path, Tail(texts), endByte, k.keyCounter)
                  IN  [matches |-> <<[File |-> path, Text |-> text,
                                      StartByte |-> at, EndByte |-> endByte,
                                      Key |-> k.key]>> \o rest.matches,
                       keyCounter |-> rest.keyCounter]

\* translations[m.Key] = m.Text for every match in order, main.go:966-969.
RECURSIVE buildTranslations(_)
buildTranslations(matches) ==
    IF matches = <<>> THEN << >>
    ELSE LET m == matches[Len(matches)]
             rest == buildTranslations(SubSeq(matches, 1, Len(matches) - 1))
         IN  [k \in DOMAIN rest \cup {m.Key} |->
                 IF k = m.Key THEN m.Text ELSE rest[k]]

\* fileMatches[filePath], main.go:960-963.
MatchesOf(path) == SelectSeq(results, LAMBDA m : m.File = path)

PFile == <<47, 114, 47, 112, 46, 118, 117, 101>>             \* "/r/p.vue"
QFile == <<47, 114, 47, 68, 47, 113, 46, 118, 117, 101>>     \* "/r/D/q.vue"

\* os.ReadDir returns the entries sorted by name: "D" before "p.vue".
WalkOrder == <<QFile, PFile>>

MainTexts ==
    { <<97>>,               \* "a"
      <<97, 32, 50>>,       \* "a 2"
      <<32>> }              \* " "

\* The locale files a run of main can find.
MainCatalogs ==
    { NoFile, Malformed, ObjectFile(<<>>),
      ObjectFile(<< <<(<<112, 46, 97>>), OldText>> >>) }    \* {"p.a": "Old"}

MainInit ==
    /\ replaceFlag \in BOOLEAN
    /\ writeFlag \in BOOLEAN
    /\ \E p \in SeqsUpTo(MainTexts, MaxFileTexts), q \in SeqsUpTo(MainTexts, MaxOtherTexts) :
         fileTexts = (PFile :> p @@ QFile :> q)
    /\ disk = [f \in {PFile, QFile} |-> Concat(fileTexts[f])]
    /\ walkLeft = WalkOrder
    /\ results = <<>>
    /\ pc = "walk"
    /\ pending = {}
    /\ exitCode = -1
    /\ srcWritten = {}
    /\ ioFailed = FALSE
    /\ catFile \in MainCatalogs
    /\ catAtStart = catFile
    /\ newEntries = << >>
    /\ mergeCall = "done"
    /\ mergeRet = "none"
    /\ readErr = "none"
    /\ catBefore = NoFile
    /\ afterFirst = <<>>

mainRest == <<replaceFlag, writeFlag, fileTexts, catAtStart>>
keyRest  == <<maxSlug, calls, keys, spanSeq, run, firstKeys, firstCounter, program, roots>>
mergeRest == <<mergeCall, catBefore, afterFirst>>

\* walk reaches the next .vue file and parses it, main.go:853-865 and
\* 794-845.  A file that cannot be read contributes no match.
WalkFile ==
    /\ pc = "walk"
    /\ walkLeft # <<>>
    /\ \E readOk \in BOOLEAN :
         LET path == Head(walkLeft)
             r == IF readOk
                  THEN parseNodes(path, fileTexts[path], 0, keyCounter)
                  ELSE [matches |-> <<>>, keyCounter |-> keyCounter]
         IN  /\ results' = results \o r.matches
             /\ keyCounter' = r.keyCounter
             /\ ioFailed' = (ioFailed \/ ~readOk)
    /\ walkLeft' = Tail(walkLeft)
    /\ UNCHANGED <<mainRest, disk, pc, pending, exitCode, srcWritten,
                   keyRest, slugVars, rewriteVars, mergeVars>>

\* main.go:922-925: nothing found.
ExitNothingFound ==
    /\ pc = "walk" /\ walkLeft = <<>>
    /\ Len(results) = 0
    /\ pc' = "exit" /\ exitCode' = 0
    /\ UNCHANGED <<mainRest, disk, walkLeft, results, pending, srcWritten, ioFailed,
                   keyVars, slugVars, rewriteVars, mergeVars>>

\* main.go:927-934: discovery mode lists the matches.
ExitDiscovery ==
    /\ pc = "walk" /\ walkLeft = <<>>
    /\ Len(results) # 0 /\ ~replaceFlag
    /\ pc' = "exit" /\ exitCode' = 1
    /\ UNCHANGED <<mainRest, disk, walkLeft, results, pending, srcWritten, ioFailed,
                   keyVars, slugVars, rewriteVars, mergeVars>>

\* main.go:937-956: the dry run prints the preview.
ExitDryRun ==
    /\ pc = "walk" /\ walkLeft = <<>>
    /\ Len(results) # 0 /\ replaceFlag /\ ~writeFlag
    /\ pc' = "exit" /\ exitCode' = 0
    /\ UNCHANGED <<mainRest, disk, walkLeft, results, pending, srcWritten, ioFailed,
                   keyVars, slugVars, rewriteVars, mergeVars>>

\* Write mode as it would begin if the dry-run branch of main.go:937-956
\* did not stop a run that has -replace but not -write.
BeginWriteWithoutWriteFlag ==
    /\ pc = "walk" /\ walkLeft = <<>>
    /\ Len(results) # 0 /\ replaceFlag
    /\ pending' = {results[i].File : i \in 1..Len(results)}
    /\ newEntries' = buildTranslations(results)
    /\ pc' = "rewrite"
    /\ UNCHANGED <<mainRest, disk, walkLeft, results, exitCode, srcWritten, ioFailed,
                   keyVars, slugVars, rewriteVars, catFile, mergeRet, readErr, mergeRest>>

\* main.go:960-969: write mode groups the matches by file and builds the
\* translations.
BeginWrite ==
    /\ pc = "walk" /\ walkLeft = <<>>
    /\ Len(results) # 0 /\ replaceFlag /\ writeFlag
    /\ pending' = {results[i].File : i \in 1..Len(results)}
    /\ newEntries' = buildTranslations(results)
    /\ pc' = "rewrite"
    /\ UNCHANGED <<mainRest, disk, walkLeft, results, exitCode, srcWritten, ioFailed,
                   keyVars, slugVars, rewriteVars, catFile, mergeRet, readErr, mergeRest>>

\* One iteration of main's per-file loop, main.go:972-995, for any file
\* not yet processed (Go ranges over the map in no fixed order).
ProcessFile ==
    /\ pc = "rewrite"
    /\ \E path \in pending, readOk \in BOOLEAN, writeOutcome \in WriteOutcomes :
         LET matches == sortByStartDesc(MatchesOf(path))
             content == replaceInFile(disk[path], matches)
         IN  /\ pending' = pending \ {path}
             /\ IF ~readOk
                THEN /\ ioFailed' = TRUE
                     /\ UNCHANGED <<disk, srcWritten>>
                ELSE CASE writeOutcome = "ok" ->
                            /\ disk' = [disk EXCEPT ![path] = content]
                            /\ srcWritten' = srcWritten \cup {path}
                            /\ UNCHANGED ioFailed
                       [] writeOutcome = "openFails" ->
                            /\ ioFailed' = TRUE
                            /\ UNCHANGED <<disk, srcWritten>>
                       [] writeOutcome = "writeFails" ->
                            /\ disk' = [disk EXCEPT ![path] = <<>>]
                            /\ srcWritten' = srcWritten \cup {path}
                            /\ ioFailed' = TRUE
    /\ UNCHANGED <<mainRest, walkLeft, results, pc, exitCode,
                   keyVars, slugVars, rewriteVars, mergeVars>>

\* main.go:998-1004: after the loop, the locale file is written; an error
\* exits with code 1, otherwise main returns.
WriteCatalog ==
    /\ pc = "rewrite"
    /\ pending = {}
    /\ \E err \in ReadErrs(catFile), writeOutcome \in WriteOutcomes :
         LET r == writeLocaleFile(catFile, newEntries, err, writeOutcome)
         IN  /\ catFile' = r.file
             /\ mergeRet' = r.ret
             /\ readErr' = err
             /\ exitCode' = IF r.ret = "nil" THEN 0 ELSE 1
             /\ ioFailed' = (ioFailed \/ err = "other" \/ r.ret = "write")
    /\ pc' = "exit"
    /\ UNCHANGED <<mainRest, disk, walkLeft, results, pending, srcWritten,
                   keyVars, slugVars, rewriteVars, newEntries, mergeRest>>

MainNext ==
    \/ WalkFile
    \/ ExitNothingFound
    \/ ExitDiscovery
    \/ ExitDryRun
    \/ BeginWrite
    \/ ProcessFile
    \/ WriteCatalog

MainSpecInit == MainInit /\ KeyIdle /\ SlugIdle /\ RewriteIdle

MainSpec == MainSpecInit /\ [][MainNext]_vars

(***************************************************************************)
(* Two runs over the same tree placed under two different directories.     *)
(* main.go holds two key generators: generateKey of the main package at    *)
(* line 574 and generateKey of the main package at line 1.                 *)
(***************************************************************************)
\* strings.TrimSpace on ASCII bytes.
RECURSIVE TrimSpace(_)
TrimSpace(s) ==
    IF s = <<>> THEN s
    ELSE IF IsSpace(Head(s)) THEN TrimSpace(Tail(s))
    ELSE IF IsSpace(s[Len(s)]) THEN TrimSpace(SubSeq(s, 1, Len(s) - 1))
    ELSE s

\* slug.Make(text) of the slug library called at main.go:83-84, for a text
\* of ASCII letters, digits and spaces that is shorter than slug.MaxLength:
\* lower-cased, every run of other bytes turned into one '-', and '-'
\* trimmed from both ends.
slugMake(text) == Trim(ReplaceRuns(ToLower(text)), Hyphen)

\* generateKey of the main package at line 1, main.go:73-94.  The result of
\* filepath.Rel (lines 74-77) is overwritten at line 79 by the trimmed full
\* path, which is what the key is built from.
firstGenerateKey(path, basepath, text, maxslug, keycounter) ==
    LET rel == Rel(basepath, path)
        relpath0 == IF rel.ok THEN rel.path ELSE path
        relpath == ReplaceAll(ToLower(TrimSuffix(TrimSpace(path), VueExt)), Sep, Dot)
        key == relpath \o <<Dot>> \o slugMake(text)
        count == Count(keycounter, key) + 1
    IN  [key |-> IF count > 1 THEN key \o <<Hyphen>> \o Itoa(count) ELSE key,
         keyCounter |-> Put(keycounter, key, count)]

\* The working directory of the process.
Cwd == <<47, 119>>                                          \* "/w"

\* filepath.Abs on a clean path, main.go:911.
Abs(path) == IF IsAbs(path) THEN path ELSE Cwd \o <<Sep>> \o path

\* The base path main hands to walk: the absolute path in the main package
\* at line 574 (main.go:911 and 920), the -path flag as given in the main
\* package at line 1 (main.go:308).
basePathOf(prog, flag) == IF prog = "last" THEN Abs(flag) ELSE flag

\* fullPath of walk, main.go:855 and 244: filepath.Join(path, entry.Name())
\* at every level from the base path down to the file.
RECURSIVE fullPath(_, _)
fullPath(path, names) ==
    IF names = <<>> THEN path
    ELSE fullPath(path \o <<Sep>> \o Head(names), Tail(names))

\* The -path flag values: "/r", "/s/t" and the relative "r".
RootFlags == { <<47, 114>>, <<47, 115, 47, 116>>, <<114>> }

\* The .vue files of the tree, as the entry names from its root down:
\* "p.vue" and "D/q.vue".
TreeFiles ==
    { << <<112, 46, 118, 117, 101>> >>,
      << <<68>>, <<113, 46, 118, 117, 101>> >> }

TreeTexts == { <<97>>, <<65>>, <<97, 32, 50>> }             \* "a", "A", "a 2"

RootsInit ==
    /\ maxSlug = MaxSlugDefault
    /\ keyCounter = NewKeyCounter
    /\ calls = <<>>
    /\ keys = <<>>
    /\ spanSeq \in SeqsUpTo(TreeFiles \X TreeTexts, MaxCalls)
    /\ run = 1
    /\ firstKeys = <<>>
    /\ firstCounter = << >>
    /\ program \in {"first", "last"}
    /\ roots \in {r \in RootFlags \X RootFlags : r[1] # r[2]}

\* The next generateKey call of the walk over the tree under this run's
\* -path, main.go:847-867 and 830-832 (236-257 and 220-222 in the main
\* package at line 1).
WalkTreeGenerateKey ==
    /\ Len(calls) < Len(spanSeq)
    /\ LET span == spanSeq[Len(calls) + 1]
           basePath == basePathOf(program, roots[run])
           filePath == fullPath(basePath, span[1])
           r == IF program = "last"
                THEN generateKey(filePath, basePath, span[2], maxSlug, keyCounter)
                ELSE firstGenerateKey(filePath, basePath, span[2], maxSlug, keyCounter)
       IN  /\ keyCounter' = r.keyCounter
           /\ keys' = Append(keys, r.key)
           /\ calls' = Append(calls, span)
    /\ UNCHANGED <<maxSlug, spanSeq, run, firstKeys, firstCounter, program, roots,
                   slugVars, rewriteVars, mergeVars, mainVars>>

RootsNext == WalkTreeGenerateKey \/ StartRun

RootsSpecInit == MainIdle /\ MergeIdle /\ RootsInit /\ SlugIdle /\ RewriteIdle

RootsSpec == RootsSpecInit /\ [][RootsNext]_vars

(***************************************************************************)
(* Claims about the key generator.                                         *)
(***************************************************************************)
\* The candidate key of the i-th generateKey call of the run.
CandidateOfCall(i) == candidateKey(calls[i][1], BasePath, calls[i][2], maxSlug)

\* How many of the first i calls produced the candidate of the i-th call.
OccurrenceOfCall(i) ==
    Cardinality({j \in 1..i : CandidateOfCall(j) = CandidateOfCall(i)})

\* C1: within one run, sharing one key counter that starts empty, no two
\* generateKey calls return the same key.
C1_KeysPairwiseDistinct ==
    \A i, j \in 1..Len(keys) : i # j => keys[i] # keys[j]

\* C2: the n-th call that produces a candidate key K returns K when n = 1
\* and K-n when n > 1, whatever other candidates were produced in between.
C2_NthOccurrenceSuffix ==
    \A i \in 1..Len(keys) :
        LET n == OccurrenceOfCall(i)
        IN  keys[i] = IF n = 1 THEN CandidateOfCall(i)
                      ELSE CandidateOfCall(i) \o <<Hyphen>> \o Itoa(n)

\* C2 witness: a candidate produced twice, with a call for another candidate
\* in between, the second of the two calls returning the candidate plus "-2".
C2_Witness ==
    /\ Len(keys) = MaxCalls
    /\ \E i, j, k \in 1..Len(keys) :
         /\ i < j /\ j < k
         /\ CandidateOfCall(i) = CandidateOfCall(k)
         /\ CandidateOfCall(j) # CandidateOfCall(i)
         /\ OccurrenceOfCall(k) = 2
         /\ keys[k] = CandidateOfCall(k) \o <<Hyphen, 50>>

AlnumPositions(s) ==
    LET P == {i \in 1..Len(s) : IsAlnum(s[i])}
        RECURSIVE Sorted(_)
        Sorted(Q) == IF Q = {} THEN <<>>
                     ELSE LET m == CHOOSE x \in Q : \A y \in Q : x <= y
                          IN  <<m>> \o Sorted(Q \ {m})
    IN  Sorted(P)

\* The lower-cased text with every maximal run of bytes outside [a-z0-9]
\* replaced by one '-' and the leading and trailing '-' removed, stated by
\* position: the bytes in [a-z0-9] in order, with one '-' between two of
\* them exactly when they are not adjacent in the text.
RECURSIVE Hyphenated(_, _, _)
Hyphenated(low, pos, m) ==
    IF m > Len(pos) THEN <<>>
    ELSE (IF m > 1 /\ pos[m] > pos[m - 1] + 1 THEN <<Hyphen>> ELSE <<>>)
         \o <<low[pos[m]]>> \o Hyphenated(low, pos, m + 1)

Normalized(text) ==
    LET low == [i \in 1..Len(text) |->
                   IF text[i] \in 65..90 THEN text[i] + 32 ELSE text[i]]
    IN  Hyphenated(low, AlnumPositions(low), 1)

MatchesAt(at) ==
    {i \in 1..Len(fileMatches) : fileMatches[i].StartByte = at}

\* The original content read from offset `at` on, left to right: at the
\* start of a match its replacement and then on from the match's end,
\* any other byte as it is.
RECURSIVE ExpectedFrom(_)
ExpectedFrom(at) ==
    IF at >= Len(fileContent) THEN <<>>
    ELSE IF MatchesAt(at) # {}
         THEN LET m == fileMatches[CHOOSE i \in MatchesAt(at) : TRUE]
              IN  <<123, 123, 32, 36, 116, 40, 39>> \o m.Key
                      \o <<39, 41, 32, 125, 125>> \o ExpectedFrom(m.EndByte)
         ELSE <<fileContent[at + 1]>> \o ExpectedFrom(at + 1)

\* C3: for non-overlapping matches applied in descending StartByte order,
\* the result is the original content with every match's byte range
\* replaced by {{ $t('<key>') }} and every other byte kept, in order,
\* whether a replacement is longer or shorter than its match.
C3_RewriteExact ==
    newContent # <<>> => newContent[1] = ExpectedFrom(0)

\* C3 witness: two matches rewritten, the first in the file longer than
\* its replacement (the buffer shrinks) and the second shorter (it grows).
C3_Witness ==
    /\ newContent # <<>>
    /\ Len(fileMatches) = 2
    /\ \E i, j \in 1..2 :
         /\ fileMatches[i].StartByte < fileMatches[j].StartByte
         /\ fileMatches[i].EndByte - fileMatches[i].StartByte
                > Len(formatReplacement(fileMatches[i].Key))
         /\ fileMatches[j].EndByte - fileMatches[j].StartByte
                < Len(formatReplacement(fileMatches[j].Key))

(***************************************************************************)
(* Claims about the catalog merger.                                        *)
(***************************************************************************)
\* The key -> text mapping a locale file holds; none when it is missing.
CatalogOf(file) == IF file.exists /\ file.valid THEN Unmarshal(file.pairs) ELSE << >>

\* C4: after writeLocaleFile succeeds, every key the catalog held before
\* the call is still there with its value unchanged, and every key of
\* newEntries that was absent before is there with the new text.
C4_MergeKeepsExisting ==
    (mergeCall # "first" /\ mergeRet = "nil") =>
        LET before == CatalogOf(catBefore)
            after == CatalogOf(catFile)
        IN  /\ \A k \in DOMAIN before :
                   k \in DOMAIN after /\ after[k] = before[k]
            /\ \A k \in DOMAIN newEntries \ DOMAIN before :
                   k \in DOMAIN after /\ after[k] = newEntries[k]

\* What C4 says, for the calls in which os.ReadFile read the file or
\* found it missing.
MergeKeepsExistingWhenRead ==
    (mergeCall # "first" /\ mergeRet = "nil" /\ readErr # "other") =>
        LET before == CatalogOf(catBefore)
            after == CatalogOf(catFile)
        IN  /\ DOMAIN after = DOMAIN before \cup DOMAIN newEntries
            /\ \A k \in DOMAIN before : after[k] = before[k]
            /\ \A k \in DOMAIN newEntries \ DOMAIN before :
                   after[k] = newEntries[k]

\* C5: only a missing locale file counts as an empty catalog. When the
\* file is there but malformed, or reading it fails for another reason,
\* the call returns an error and leaves the file as it was.
C5_OnlyMissingIsEmpty ==
    mergeCall # "first" =>
        /\ (~catBefore.exists /\ mergeRet = "nil") =>
               catFile = ObjectFile(MarshalIndent(newEntries))
        /\ (catBefore.exists /\ (~catBefore.valid \/ readErr = "other")) =>
               (mergeRet # "nil" /\ catFile = catBefore)

\* C10: two calls in a row with the same newEntries, both succeeding,
\* leave the locale file as the first call left it.
C10_MergeIdempotent ==
    (mergeCall = "done" /\ afterFirst[2] = "nil" /\ mergeRet = "nil") =>
        catFile = afterFirst[1]

\* What C10 says, for second calls in which os.ReadFile read the file.
MergeIdempotentWhenRead ==
    (mergeCall = "done" /\ afterFirst[2] = "nil" /\ mergeRet = "nil"
        /\ readErr # "other") =>
        catFile = afterFirst[1]

(***************************************************************************)
(* Claims about a run of main.                                             *)
(***************************************************************************)
\* C6: in a write-mode run that finds the locale file present but not
\* valid, no source file is ever written.
C6_NoRewriteOnBadCatalog ==
    (replaceFlag /\ writeFlag /\ catAtStart = Malformed) => srcWritten = {}

\* C7: a write-mode run in which reading or writing a source file failed
\* still goes through every remaining file and the catalog merge, and it
\* exits with code 0 only if no I/O failure occurred.
C7_ExitCodeReflectsFailure ==
    (replaceFlag /\ writeFlag /\ pc = "exit" /\ Len(results) # 0) =>
        /\ pending = {}
        /\ mergeRet # "none"
        /\ exitCode = 0 => ~ioFailed

\* The bytes of every source file before the run.
DiskAtStart == [f \in {PFile, QFile} |-> Concat(fileTexts[f])]

\* No write has been performed: os.WriteFile was never called on a source
\* file, writeLocaleFile was never called, and every file holds the bytes
\* it held before the run.
NothingWritten ==
    /\ srcWritten = {}
    /\ mergeRet = "none"
    /\ disk = DiskAtStart
    /\ catFile = catAtStart

\* C11: unless both -replace and -write are given, and also as long as no
\* span was found, a run performs no file write: every source file and the
\* locale file stay as they were (discovery mode, dry run, nothing found).
C11_NoWriteUnlessReplaceAndWrite ==
    (~(replaceFlag /\ writeFlag) \/ Len(results) = 0) => NothingWritten

\* A dry run has exited after finding two spans while a valid locale file
\* exists: replacement was asked for, and nothing was written.
C11_Witness ==
    /\ pc = "exit"
    /\ replaceFlag /\ ~writeFlag
    /\ Len(results) = 2
    /\ catAtStart \notin {NoFile, Malformed}
    /\ exitCode = 0

(***************************************************************************)
(* Claims about keys and the base directory.                               *)
(***************************************************************************)
\* The path stem of a file of the tree taken relative to the root of the
\* tree: extension stripped, lower-cased, separators turned into '.'.
RelativeStem(names) ==
    ReplaceAll(ToLower(TrimSuffix(Join(names, Sep), VueExt)), Sep, Dot)

\* The slug of the text of the i-th call, as the running program makes it.
SlugOfCall(i) ==
    IF program = "last" THEN slugify(calls[i][2], maxSlug) ELSE slugMake(calls[i][2])

\* Every key returned so far is built on the relative path stem, and the
\* second run has returned the keys the first run returned.
KeysFromRelativePath ==
    /\ \A i \in 1..Len(keys) :
          LET cand == RelativeStem(calls[i][1]) \o <<Dot>> \o SlugOfCall(i)
          IN  keys[i] \in {suffixed(cand, n) : n \in 1..Len(keys)}
    /\ run = 2 => \A i \in 1..Len(keys) : keys[i] = firstKeys[i]

\* C12: the candidate key of generateKey is pathStem + "." + slug with the
\* path stem taken relative to the base path (extension stripped,
\* lower-cased, separators replaced by '.'), so the base directory never
\* shows in a key and two runs over the same tree under different base
\* directories return the same keys.
C12_KeyRelativeToBasePath == KeysFromRelativePath

\* The same for the generateKey of the main package at line 574 alone.
KeyRelativeToBasePathInLast == program = "last" => KeysFromRelativePath

\* Both runs of the main package at line 574 have finished over a tree of
\* three spans, one -path given relative and one absolute.
KeyRelativeToBasePathInLastSeen ==
    /\ program = "last" /\ run = 2
    /\ Len(keys) = MaxCalls
    /\ roots = << <<114>>, <<47, 115, 47, 116>> >>
    /\ \E i \in 1..Len(calls) : Len(calls[i][1]) = 2

(***************************************************************************)
(* Claims about the catalog after a run of main.                           *)
(***************************************************************************)
\* The source files whose bytes on disk are the rewritten template.
RewrittenFiles ==
    {f \in srcWritten :
        disk[f] = replaceInFile(DiskAtStart[f], sortByStartDesc(MatchesOf(f)))}

\* The match's key is in the locale file, with the match's text as its
\* value unless the locale file held the key before the run.
InCatalogWithText(m) ==
    /\ m.Key \in DOMAIN CatalogOf(catFile)
    /\ m.Key \notin DOMAIN CatalogOf(catAtStart) => CatalogOf(catFile)[m.Key] = m.Text

\* A -replace -write run has exited with code 0 after finding spans.
WriteRunSucceeded ==
    pc = "exit" /\ replaceFlag /\ writeFlag /\ exitCode = 0 /\ Len(results) # 0

\* C13: after a write-mode run that exits with code 0, the key of every
\* span replaced in a rewritten source file is in the locale file, and if
\* the locale file did not hold that key before the run, its value there is
\* the original text of that span.
C13_SubstitutedKeysInCatalog ==
    WriteRunSucceeded =>
        \A i \in 1..Len(results) :
            results[i].File \in RewrittenFiles => InCatalogWithText(results[i])

\* The same for the runs in which no two spans received the same key.
SubstitutedKeysInCatalogWhenDistinct ==
    (\A i, j \in 1..Len(results) : results[i].Key = results[j].Key => i = j)
        => C13_SubstitutedKeysInCatalog

====
